---- MODULE Spec2Model ----
(***************************************************************************)
(* State-machine model of the two transfer loops of tftp-client.py:        *)
(* tftp_client_get (download) and tftp_client_put (upload).                *)
(*                                                                         *)
(* One behaviour is one call of one of the two functions.  The network is  *)
(* the environment: every blocking recvfrom either returns a datagram from *)
(* some sender, raises socket.timeout or raises ConnectionResetError.      *)
(*                                                                         *)
(* A byte string (a Data payload, a chunk read from the source file) is    *)
(* the record [len, tag]: its length and a tag naming its content.  In an  *)
(* incoming Data payload every byte has the value tag; the chunk f.read    *)
(* returns carries the file offset of its first byte.  The output file is  *)
(* the sequence of the byte strings written to it (its content is their    *)
(* concatenation).                                                         *)
(***************************************************************************)
EXTENDS Integers, Sequences, FiniteSets, TLC

(* ---- program constants ------------------------------------------------ *)
OP_RRQ == 1
OP_WRQ == 2
OP_DATA == 3
OP_ACK == 4
OP_ERROR == 5
OPT_EXTENSION == 0
OPT_BLKSIZE_CODE == 2
ERR_FILE_NOT_FOUND == 1
ERR_DISK_FULL == 3
DEFAULT_BLOCK_SIZE == 512
DEFAULT_RETRY == 3
\* a block number on the wire is an unsigned 16-bit field (struct "!H")
WireBlocks == 65536
MaxBlock == WireBlocks - 1
\* an opcode parse_packet has no branch for (6 is the OACK of RFC 2347)
OP_OTHER == OP_ERROR + 1

(* ---- bounds ----------------------------------------------------------- *)
\* number of recvfrom calls of one session the model follows
MaxSteps == 4
\* longest source file uploaded from its first block
MaxSrcLen == 4

(* ---- values ----------------------------------------------------------- *)
NoAddr == "none"
\* the address the request is sent to (server_ip, port 69)
ServerAddr == "srv69"
\* senders of datagrams: the server's transfer port and a stranger
Senders == {"tid", "other"}

NoData == [len |-> 0, tag |-> 0]
Bytes(n, t) == [len |-> n, tag |-> t]

Min(a, b) == IF a < b THEN a ELSE b

NoPacket == [opcode |-> 0, blk |-> 0, data |-> NoData, opts |-> FALSE]
Packet(o, b, d) == [opcode |-> o, blk |-> b, data |-> d, opts |-> FALSE]

\* what the last recvfrom did: res is "packet", "timeout" or "reset"
NoRecv == [res |-> "none", pkt |-> NoPacket, from |-> NoAddr]
NoSend == [pkt |-> NoPacket, to |-> NoAddr]

\* no message: the value of msg and decoded outside a codec round trip
NoMsg == [opcode |-> 0]

VARIABLES
  op,            \* "none", "get" or "put": the function called
  pc,            \* position in the function
  outcome,       \* "none" while running, else how the call ended
  block_size,    \* block_size
  block_number,  \* block_number (0 before the loop assigns it)
  server_addr,   \* (server_ip, server_port), rebound by every recvfrom
  fileExists,    \* save_path exists
  file,          \* the byte strings written to save_path, in order
  src,           \* length of the local source file (put)
  srcExists,     \* os.path.isfile(local_filename)
  fpos,          \* read position of f in the source file (put)
  lastRcvd,      \* result of the last recvfrom
  lastSent,      \* last datagram passed to sendto
  nSent,         \* number of sendto calls that sent a datagram
  steps,         \* number of recvfrom calls made
  bulk,          \* blocks transferred by the fast-forward step
  first_addr,    \* history: sender of the first reply
  wrote,         \* history: (block number, payload) of every f.write
  dataLog,       \* history: Data packets sent by put, after the bulk
  errorSeen,     \* history: an Error packet was received
  requested,     \* history: the block_size argument of the call
  msg,           \* codec round trip: the message handed to create_packet_*
  wire,          \* codec round trip: the bytes create_packet_* returned
  decoded        \* codec round trip: what parse_packet made of wire

vars == <<op, pc, outcome, block_size, block_number, server_addr, fileExists,
          file, src, srcExists, fpos, lastRcvd, lastSent, nSent, steps, bulk,
          first_addr, wrote, dataLog, errorSeen, requested, msg, wire,
          decoded>>

getVars == <<fileExists, file, wrote>>
putVars == <<src, srcExists, fpos, dataLog>>
codecVars == <<msg, wire, decoded>>

Init ==
  /\ op = "none"
  /\ pc = "idle"
  /\ outcome = "none"
  /\ block_size = DEFAULT_BLOCK_SIZE
  /\ block_number = 0
  /\ server_addr = ServerAddr
  /\ fileExists = FALSE
  /\ file = <<>>
  /\ src = 0
  /\ srcExists = FALSE
  /\ fpos = 0
  /\ lastRcvd = NoRecv
  /\ lastSent = NoSend
  /\ nSent = 0
  /\ steps = 0
  /\ bulk = 0
  /\ first_addr = NoAddr
  /\ wrote = <<>>
  /\ dataLog = <<>>
  /\ errorSeen = FALSE
  /\ requested = 0
  /\ msg = NoMsg
  /\ wire = <<>>
  /\ decoded = NoMsg

(* ---- packet codec ------------------------------------------------------ *)
\* append_option accepts the blksize option code only
append_option_ok(option_code) == option_code = OPT_BLKSIZE_CODE

\* create_packet_rrq raises ValueError when its first append_option does
create_packet_rrq_raises(bs) ==
  bs # DEFAULT_BLOCK_SIZE /\ ~append_option_ok(OPT_EXTENSION)

create_packet_rrq(bs) ==
  [opcode |-> OP_RRQ, blk |-> 0, data |-> NoData,
   opts |-> (bs # DEFAULT_BLOCK_SIZE)]

create_packet_wrq == Packet(OP_WRQ, 0, NoData)

\* struct.pack("!HH", ...) raises struct.error outside 0..65535
pack_raises(block) == block < 0 \/ block > MaxBlock

create_packet_data(block, data) == Packet(OP_DATA, block, data)

create_packet_ack(block) == Packet(OP_ACK, block, NoData)

create_packet_error(code) == Packet(OP_ERROR, code, NoData)

\* sock.recvfrom(block_size + 4) keeps the first block_size + 4 bytes
recv_truncate(p, bs) ==
  IF p.opcode = OP_DATA
  THEN [p EXCEPT !.data = Bytes(Min(p.data.len, bs), p.data.tag)]
  ELSE p

\* parse_packet returns None for an opcode outside 1..5; the caller's
\* "opcode, payload = ..." then raises TypeError
parse_raises(p) == p.opcode \notin {OP_RRQ, OP_WRQ, OP_DATA, OP_ACK, OP_ERROR}

(* ---- the environment's datagrams --------------------------------------- *)
InPayloads(bs) ==
  {Bytes(0, 0), Bytes(1, 1), Bytes(bs, 1), Bytes(bs, 2), Bytes(bs + 1, 2)}

NearBlocks(bn) == {b \in {0, bn - 1, bn, bn + 1} : b >= 0 /\ b <= MaxBlock}

DataPackets(bn, bs) ==
  {Packet(OP_DATA, b, d) : b \in NearBlocks(bn), d \in InPayloads(bs)}

AckPackets(bn) ==
  {Packet(OP_ACK, b, NoData) :
     b \in {c \in {0, bn - 2, bn - 1, bn} : c >= 0 /\ c <= MaxBlock}}

ErrorPackets == {Packet(OP_ERROR, ERR_FILE_NOT_FOUND, NoData)}

\* request-shaped replies: without options, or with a blksize option whose
\* value the blk field holds
ServerBlockSizes == {DEFAULT_BLOCK_SIZE \div 2, 2 * DEFAULT_BLOCK_SIZE}

RequestPackets ==
  {Packet(OP_RRQ, 0, NoData)}
    \cup {[opcode |-> OP_RRQ, blk |-> b, data |-> NoData, opts |-> TRUE] :
            b \in ServerBlockSizes}

OtherPackets == {Packet(OP_OTHER, 0, NoData)}

(* ---- steps shared by the handlers -------------------------------------- *)
\* sock.sendto(pkt, to)
Send(pkt, to) ==
  /\ lastSent' = [pkt |-> pkt, to |-> to]
  /\ nSent' = nSent + 1

NoSendStep == UNCHANGED <<lastSent, nSent>>

\* packet, (server_ip, server_port) = sock.recvfrom(...)
Recv(p, a) ==
  /\ steps < MaxSteps
  /\ steps' = steps + 1
  /\ lastRcvd' = [res |-> "packet", pkt |-> recv_truncate(p, block_size),
                  from |-> a]
  /\ server_addr' = a
  /\ first_addr' = IF first_addr = NoAddr THEN a ELSE first_addr
  /\ errorSeen' = (errorSeen \/ p.opcode = OP_ERROR)

\* recvfrom raises socket.timeout or ConnectionResetError
RecvFails(how) ==
  /\ steps < MaxSteps
  /\ steps' = steps + 1
  /\ lastRcvd' = [res |-> how, pkt |-> NoPacket, from |-> NoAddr]
  /\ UNCHANGED <<server_addr, first_addr, errorSeen>>

\* the call ends: returns, or leaves by an uncaught exception
End(how) ==
  /\ pc' = "end"
  /\ outcome' = how

(* ---- tftp_client_get ---------------------------------------------------- *)
GetBlockSizes == {DEFAULT_BLOCK_SIZE, 2 * DEFAULT_BLOCK_SIZE}

\* lines 245-256: the socket, the request
GetStart(bs) ==
  /\ pc = "idle"
  /\ requested' = bs
  /\ UNCHANGED codecVars
  /\ op' = "get"
  /\ block_size' = bs
  /\ IF create_packet_rrq_raises(bs)
     THEN End("value_error") /\ NoSendStep
     ELSE /\ Send(create_packet_rrq(bs), ServerAddr)
          /\ pc' = "getFirst"
          /\ outcome' = outcome
  /\ UNCHANGED <<block_number, server_addr, lastRcvd, steps, bulk,
                 first_addr, errorSeen>>
  /\ UNCHANGED getVars
  /\ UNCHANGED putVars

\* lines 259-266: the first recvfrom raises
GetFirstFails(how) ==
  /\ op = "get" /\ pc = "getFirst"
  /\ UNCHANGED codecVars
  /\ RecvFails(how)
  /\ End(how)
  /\ NoSendStep
  /\ UNCHANGED <<op, requested, block_size, block_number, bulk>>
  /\ UNCHANGED getVars
  /\ UNCHANGED putVars

\* lines 271-273: a request-shaped reply with options is parsed a second
\* time: parse_options is handed the dict parse_packet built and raises
first_reply_raises_unparsed(p) == parse_raises(p)

first_reply_raises(p) == parse_raises(p) \/ (p.opcode = OP_RRQ /\ p.opts)

\* lines 281-286: block_size after a first reply that did not raise
negotiated_block_size(p, bs) ==
  IF p.opcode = OP_RRQ /\ p.opts THEN p.blk ELSE bs

\* lines 260, 268-293: the first reply is parsed, then the file is opened and
\* the loop entered; the reply itself is used for nothing else
GetFirstReply(p, a) ==
  /\ op = "get" /\ pc = "getFirst"
  /\ UNCHANGED codecVars
  /\ Recv(p, a)
  /\ NoSendStep
  /\ IF first_reply_raises(p)
     THEN /\ End("parse_error")
          /\ UNCHANGED <<block_number, block_size, fileExists, file>>
     ELSE /\ pc' = "getLoop"
          /\ outcome' = outcome
          /\ block_size' = negotiated_block_size(p, block_size)
          /\ fileExists' = TRUE
          /\ file' = <<>>
          /\ block_number' = 1
  /\ UNCHANGED <<op, requested, bulk, wrote>>
  /\ UNCHANGED putVars

\* f.close(); os.remove(save_path); return
AbortKeepsFile(how) ==
  /\ End(how)
  /\ fileExists' = fileExists
  /\ file' = file

Abort(how) ==
  /\ End(how)
  /\ fileExists' = FALSE
  /\ file' = <<>>

\* lines 297-308: recvfrom raises inside the loop
GetRecvFails(how) ==
  /\ op = "get" /\ pc = "getLoop"
  /\ UNCHANGED codecVars
  /\ RecvFails(how)
  /\ Abort(how)
  /\ NoSendStep
  /\ UNCHANGED <<op, requested, block_size, block_number, bulk, wrote>>
  /\ UNCHANGED putVars

\* line 315
DataAcceptedGe(recv_block_number, bn) == recv_block_number >= bn

DataAccepted(recv_block_number, bn) == recv_block_number = bn

\* lines 357-358: the block number of the Ack for a duplicate
DupAckPrev(recv_block_number, bn) == bn - 1

DupAck(recv_block_number, bn) == recv_block_number

\* line 353
LastBlockLe(data, bs) == data.len <= bs

LastBlock(data, bs) == data.len < bs

\* lines 323-324: the packet that reports the failed free-space test
disk_full_packet_code1 == create_packet_error(ERR_FILE_NOT_FOUND)

disk_full_packet == create_packet_error(ERR_DISK_FULL)

\* lines 312-359: a Data packet.  diskFull is the outcome of the free-space
\* test of line 321, fails the number of sendto calls of the loop of lines
\* 335-342 that raise socket.timeout before one succeeds
GetData(p, a, diskFull, fails) ==
  /\ op = "get" /\ pc = "getLoop"
  /\ UNCHANGED codecVars
  /\ p.opcode = OP_DATA
  /\ Recv(p, a)
  /\ LET data == recv_truncate(p, block_size).data
         recv_block_number == p.blk
     IN IF DataAccepted(recv_block_number, block_number)
        THEN /\ wrote' = Append(wrote, [blk |-> recv_block_number,
                                        data |-> data])
             /\ IF diskFull
                THEN /\ Send(disk_full_packet, a)
                     /\ Abort("disk_full")
                     /\ UNCHANGED block_number
                ELSE IF fails >= DEFAULT_RETRY
                THEN /\ NoSendStep
                     /\ Abort("send_retries")
                     /\ UNCHANGED block_number
                ELSE /\ Send(create_packet_ack(block_number), a)
                     /\ block_number' = block_number + 1
                     /\ file' = Append(file, data)
                     /\ fileExists' = fileExists
                     /\ IF LastBlock(data, block_size)
                        THEN End("done")
                        ELSE UNCHANGED <<pc, outcome>>
        ELSE IF recv_block_number < block_number
        THEN /\ Send(create_packet_ack(DupAck(recv_block_number,
                                              block_number)), a)
             /\ UNCHANGED <<pc, outcome, block_number, fileExists, file,
                            wrote>>
        ELSE /\ NoSendStep
             /\ UNCHANGED <<pc, outcome, block_number, fileExists, file,
                            wrote>>
  /\ UNCHANGED <<op, requested, block_size, bulk>>
  /\ UNCHANGED putVars

\* lines 361-367: an Error packet
GetError(p, a) ==
  /\ op = "get" /\ pc = "getLoop"
  /\ UNCHANGED codecVars
  /\ p.opcode = OP_ERROR
  /\ Recv(p, a)
  /\ Abort("remote_error")
  /\ NoSendStep
  /\ UNCHANGED <<op, requested, block_size, block_number, bulk, wrote>>
  /\ UNCHANGED putVars

\* lines 310-361: a packet of another kind falls through both tests
GetIgnored(p, a) ==
  /\ op = "get" /\ pc = "getLoop"
  /\ UNCHANGED codecVars
  /\ ~parse_raises(p)
  /\ p.opcode \notin {OP_DATA, OP_ERROR}
  /\ Recv(p, a)
  /\ NoSendStep
  /\ UNCHANGED <<op, requested, pc, outcome, block_size, block_number, bulk>>
  /\ UNCHANGED getVars
  /\ UNCHANGED putVars

\* line 310: the unpacking of parse_packet's None raises inside the with
\* block, which closes the file and leaves it in place
GetUnparsed(p, a) ==
  /\ op = "get" /\ pc = "getLoop"
  /\ UNCHANGED codecVars
  /\ parse_raises(p)
  /\ Recv(p, a)
  /\ End("parse_error")
  /\ NoSendStep
  /\ UNCHANGED <<op, requested, block_size, block_number, bulk>>
  /\ UNCHANGED getVars
  /\ UNCHANGED putVars

\* number of blocks the fast-forward steps transfer
BulkBlocks == MaxBlock - 1

\* lines 294-355 taken BulkBlocks times in a row from the start of the loop:
\* Data(1), Data(2), ... Data(BulkBlocks), each of block_size bytes, arrive
\* in order from the first reply's sender, the free-space test passes and
\* every Ack is sent.  The blocks written are counted by bulk, not listed.
GetBulk ==
  /\ op = "get" /\ pc = "getLoop"
  /\ UNCHANGED codecVars
  /\ block_number = 1 /\ bulk = 0
  /\ bulk' = BulkBlocks
  /\ block_number' = block_number + BulkBlocks
  /\ lastRcvd' = [res |-> "packet",
                  pkt |-> Packet(OP_DATA, BulkBlocks, Bytes(block_size, 1)),
                  from |-> first_addr]
  /\ server_addr' = first_addr
  /\ lastSent' = [pkt |-> create_packet_ack(BulkBlocks), to |-> first_addr]
  /\ nSent' = nSent + BulkBlocks
  /\ UNCHANGED <<op, requested, pc, outcome, block_size, steps, first_addr,
                 errorSeen>>
  /\ UNCHANGED getVars
  /\ UNCHANGED putVars

(* ---- tftp_client_put ---------------------------------------------------- *)
PutBlockSizes == {1, 2, DEFAULT_BLOCK_SIZE}

\* (block_size, length of the source file) of the uploads followed
PutInputs ==
  {<<bs, len>> : bs \in PutBlockSizes, len \in 0..MaxSrcLen}
    \cup {<<1, BulkBlocks>>, <<1, BulkBlocks + 1>>}

\* f.read(n) at position pos of a file of length len
f_read(pos, n, len) == Bytes(Min(n, len - pos), pos)

\* lines 374-391: the socket, the request, the test for the source file
PutStart(bs, len, exists) ==
  /\ pc = "idle"
  /\ requested' = bs
  /\ UNCHANGED codecVars
  /\ op' = "put"
  /\ block_size' = bs
  /\ srcExists' = exists
  /\ src' = IF exists THEN len ELSE 0
  /\ Send(create_packet_wrq, ServerAddr)
  /\ IF exists
     THEN pc' = "putLoop" /\ block_number' = 1
     ELSE pc' = "putNoFile" /\ block_number' = block_number
  /\ UNCHANGED <<outcome, server_addr, lastRcvd, steps, bulk, first_addr,
                 errorSeen, fpos, dataLog>>
  /\ UNCHANGED getVars

\* lines 393-397: recvfrom raises; ConnectionResetError is not caught
PutRecvFails(how) ==
  /\ op = "put" /\ pc = "putLoop"
  /\ UNCHANGED codecVars
  /\ RecvFails(how)
  /\ End(how)
  /\ NoSendStep
  /\ UNCHANGED <<op, requested, block_size, block_number, bulk>>
  /\ UNCHANGED getVars
  /\ UNCHANGED putVars

\* line 404
AckMatchesLe(recv_block_number, bn) == recv_block_number + 1 <= bn

AckMatches(recv_block_number, bn) == recv_block_number + 1 = bn

\* lines 401-412: an Ack packet
PutAck(p, a) ==
  /\ op = "put" /\ pc = "putLoop"
  /\ UNCHANGED codecVars
  /\ p.opcode = OP_ACK
  /\ Recv(p, a)
  /\ IF AckMatches(p.blk, block_number)
     THEN LET data == f_read(fpos, block_size, src)
          IN /\ fpos' = fpos + data.len
             /\ IF pack_raises(block_number)
                THEN /\ End("struct_error")
                     /\ NoSendStep
                     /\ UNCHANGED <<block_number, dataLog>>
                ELSE /\ Send(create_packet_data(block_number, data), a)
                     /\ dataLog' = Append(dataLog,
                                          create_packet_data(block_number,
                                                             data))
                     /\ block_number' = block_number + 1
                     /\ IF LastBlock(data, block_size)
                        THEN End("done")
                        ELSE UNCHANGED <<pc, outcome>>
     ELSE /\ NoSendStep
          /\ UNCHANGED <<pc, outcome, block_number, fpos, dataLog>>
  /\ UNCHANGED <<op, requested, block_size, bulk, src, srcExists>>
  /\ UNCHANGED getVars

\* lines 414-417: an Error packet
PutError(p, a) ==
  /\ op = "put" /\ pc = "putLoop"
  /\ UNCHANGED codecVars
  /\ p.opcode = OP_ERROR
  /\ Recv(p, a)
  /\ End("remote_error")
  /\ NoSendStep
  /\ UNCHANGED <<op, requested, block_size, block_number, bulk>>
  /\ UNCHANGED getVars
  /\ UNCHANGED putVars

\* lines 399-414: a packet of another kind falls through both tests
PutIgnored(p, a) ==
  /\ op = "put" /\ pc = "putLoop"
  /\ UNCHANGED codecVars
  /\ ~parse_raises(p)
  /\ p.opcode \notin {OP_ACK, OP_ERROR}
  /\ Recv(p, a)
  /\ NoSendStep
  /\ UNCHANGED <<op, requested, pc, outcome, block_size, block_number, bulk>>
  /\ UNCHANGED getVars
  /\ UNCHANGED putVars

\* line 399: the unpacking of parse_packet's None raises
PutUnparsed(p, a) ==
  /\ op = "put" /\ pc = "putLoop"
  /\ UNCHANGED codecVars
  /\ parse_raises(p)
  /\ Recv(p, a)
  /\ End("parse_error")
  /\ NoSendStep
  /\ UNCHANGED <<op, requested, block_size, block_number, bulk>>
  /\ UNCHANGED getVars
  /\ UNCHANGED putVars

\* lines 419-423: no source file, and the one recvfrom raises
PutNoFileFails(how) ==
  /\ op = "put" /\ pc = "putNoFile"
  /\ UNCHANGED codecVars
  /\ RecvFails(how)
  /\ End(how)
  /\ NoSendStep
  /\ UNCHANGED <<op, requested, block_size, block_number, bulk>>
  /\ UNCHANGED getVars
  /\ UNCHANGED putVars

\* the reply answered with "disk full" instead
file_not_found_packet_code3 == create_packet_error(ERR_DISK_FULL)

\* line 426: create_packet_error(ERR_FILE_NOT_FOUND, ...)
file_not_found_packet == create_packet_error(ERR_FILE_NOT_FOUND)

\* lines 420, 424-429: no source file; any reply is answered by Error(1)
PutNoFileReply(p, a) ==
  /\ op = "put" /\ pc = "putNoFile"
  /\ UNCHANGED codecVars
  /\ Recv(p, a)
  /\ Send(file_not_found_packet, a)
  /\ End("no_file")
  /\ UNCHANGED <<op, requested, block_size, block_number, bulk>>
  /\ UNCHANGED getVars
  /\ UNCHANGED putVars

\* lines 392-408 taken BulkBlocks times in a row from the start of the loop:
\* Ack(0), Ack(1), ... Ack(BulkBlocks - 1) arrive in order from one sender
\* and each is answered by the next Data packet, every one of block_size
\* bytes.  The Data packets sent are counted by bulk, not listed.
PutBulk(a) ==
  /\ op = "put" /\ pc = "putLoop"
  /\ UNCHANGED codecVars
  /\ block_number = 1 /\ bulk = 0 /\ steps = 0
  /\ src >= BulkBlocks * block_size
  /\ bulk' = BulkBlocks
  /\ block_number' = block_number + BulkBlocks
  /\ fpos' = BulkBlocks * block_size
  /\ lastRcvd' = [res |-> "packet",
                  pkt |-> Packet(OP_ACK, BulkBlocks - 1, NoData),
                  from |-> a]
  /\ server_addr' = a
  /\ first_addr' = a
  /\ lastSent' = [pkt |-> create_packet_data(BulkBlocks,
                             f_read((BulkBlocks - 1) * block_size,
                                    block_size, src)),
                  to |-> a]
  /\ nSent' = nSent + BulkBlocks
  /\ UNCHANGED <<op, requested, pc, outcome, block_size, steps, errorSeen, src,
                 srcExists, dataLog>>
  /\ UNCHANGED getVars

(* ---- the packet codec, byte by byte --------------------------------------- *)
\* A byte string is a sequence of 0..255; a str is a sequence of code points
\* (below 2048 here, so UTF-8 needs at most two bytes a character).

\* python's b[n:] and b[:n]
Drop(b, n) == IF n >= Len(b) THEN <<>> ELSE SubSeq(b, n + 1, Len(b))
Take(b, n) == SubSeq(b, 1, Min(n, Len(b)))

\* struct.pack("!H", n), least significant byte first
pack_H_little(n) == <<(n % 256), (n \div 256)>>

\* struct.pack("!H", n): network byte order, most significant byte first
pack_H(n) == <<(n \div 256), (n % 256)>>

\* struct.unpack("!H", b)[0] of a two-byte string
unpack_H(b) == b[1] * 256 + b[2]

\* one character of str.encode()
utf8(cp) == IF cp < 128 THEN <<cp>> ELSE <<192 + (cp \div 64), 128 + (cp % 64)>>

RECURSIVE str_encode(_)
str_encode(s) ==
  IF s = <<>> THEN <<>> ELSE utf8(Head(s)) \o str_encode(Tail(s))

\* bytes.decode() raises UnicodeDecodeError on a malformed sequence
RECURSIVE decode_raises(_)
decode_raises(b) ==
  IF b = <<>> THEN FALSE
  ELSE IF b[1] < 128 THEN decode_raises(Tail(b))
  ELSE IF b[1] \in 194..223 /\ Len(b) >= 2 /\ b[2] \in 128..191
       THEN decode_raises(Drop(b, 2))
  ELSE TRUE

RECURSIVE bytes_decode(_)
bytes_decode(b) ==
  IF b = <<>> THEN <<>>
  ELSE IF b[1] < 128 THEN <<b[1]>> \o bytes_decode(Tail(b))
  ELSE <<(b[1] - 192) * 64 + (b[2] - 128)>> \o bytes_decode(Drop(b, 2))

\* append_option past its option_code test: code, length 2, value
append_option(packet_data, option_code, option_value) ==
  packet_data \o pack_H(option_code) \o pack_H(2) \o pack_H(option_value)

create_packet_rrq_bytes(filename, mode, bs) ==
  LET packet == pack_H(OP_RRQ) \o str_encode(filename) \o <<0>>
                  \o str_encode(mode) \o <<0>>
  IN  IF bs # DEFAULT_BLOCK_SIZE
      THEN append_option(append_option(packet, OPT_EXTENSION,
                                       OPT_BLKSIZE_CODE),
                         OPT_BLKSIZE_CODE, bs)
      ELSE packet

create_packet_wrq_bytes(filename, mode) ==
  pack_H(OP_WRQ) \o str_encode(filename) \o <<0>> \o str_encode(mode) \o <<0>>

\* the branch for another block size raises in its first append_option
create_packet_data_bytes(block, data) ==
  pack_H(OP_DATA) \o pack_H(block) \o data

create_packet_ack_bytes(block) == pack_H(OP_ACK) \o pack_H(block)

create_packet_error_bytes(code, message) ==
  pack_H(OP_ERROR) \o pack_H(code) \o str_encode(message) \o <<0>>

\* the matching create_packet_* call raises: ValueError from append_option
\* when a block size other than the default is passed
encode_raises(m) ==
  /\ m.opcode \in {OP_RRQ, OP_DATA}
  /\ m.block_size # DEFAULT_BLOCK_SIZE
  /\ ~append_option_ok(OPT_EXTENSION)

encode(m) ==
  CASE m.opcode = OP_RRQ ->
         create_packet_rrq_bytes(m.filename, m.mode, m.block_size)
    [] m.opcode = OP_WRQ -> create_packet_wrq_bytes(m.filename, m.mode)
    [] m.opcode = OP_DATA -> create_packet_data_bytes(m.block, m.data)
    [] m.opcode = OP_ACK -> create_packet_ack_bytes(m.block)
    [] m.opcode = OP_ERROR -> create_packet_error_bytes(m.code, m.message)

\* bytes.split(b"\x00")[0]: the bytes before the first null
RECURSIVE until_null(_)
until_null(b) ==
  IF b = <<>> \/ Head(b) = 0 THEN <<>>
  ELSE <<Head(b)>> \o until_null(Tail(b))

\* struct.unpack("!B", b"") raises struct.error: the length byte is missing
RECURSIVE parse_options_raises(_)
parse_options_raises(d) ==
  IF d = <<>> THEN FALSE
  ELSE IF Len(d) = 1 THEN TRUE
  ELSE parse_options_raises(Drop(d, 2 + d[2]))

\* the dict of options as a set of <<code, value>>; a later entry with the
\* same code replaces an earlier one
RECURSIVE parse_options(_)
parse_options(d) ==
  IF d = <<>> THEN {}
  ELSE LET later == parse_options(Drop(d, 2 + d[2]))
       IN  later \cup
           {o \in {<<d[1], Take(Drop(d, 2), d[2])>>} :
              \A l \in later : l[1] # o[1]}

parse_packet_raises(packet) ==
  \/ Len(packet) < 2
  \/ LET opcode == unpack_H(Take(packet, 2))
         rest == Drop(packet, 2)
         part0 == until_null(rest)
         part1 == until_null(Drop(rest, Len(part0) + 1))
     IN  \/ /\ opcode \in {OP_RRQ, OP_WRQ}
            /\ \/ Len(part0) = Len(rest)
               \/ decode_raises(part0)
               \/ decode_raises(part1)
               \/ LET option_start == 2 + Len(bytes_decode(part0)) + 1
                                        + Len(bytes_decode(part1)) + 1
                  IN  /\ option_start < Len(packet)
                      /\ parse_options_raises(Drop(packet, option_start))
         \/ opcode \in {OP_DATA, OP_ACK, OP_ERROR} /\ Len(packet) < 4
         \/ /\ opcode = OP_ERROR
            /\ decode_raises(SubSeq(packet, 5, Len(packet) - 1))

\* parse_packet: the opcode and the fields of the payload tuple; NoMsg is
\* the None returned for an opcode outside 1..5
parse_packet(packet) ==
  LET opcode == unpack_H(Take(packet, 2))
      rest == Drop(packet, 2)
      filename == bytes_decode(until_null(rest))
      mode == bytes_decode(until_null(Drop(rest, Len(until_null(rest)) + 1)))
      option_start == 2 + Len(filename) + 1 + Len(mode) + 1
  IN  IF opcode \in {OP_RRQ, OP_WRQ}
      THEN IF option_start < Len(packet)
           THEN [opcode |-> opcode, filename |-> filename, mode |-> mode,
                 options |-> parse_options(Drop(packet, option_start))]
           ELSE [opcode |-> opcode, filename |-> filename, mode |-> mode]
      ELSE IF opcode = OP_DATA
      THEN [opcode |-> opcode, block |-> unpack_H(SubSeq(packet, 3, 4)),
            data |-> Drop(packet, 4)]
      ELSE IF opcode = OP_ACK
      THEN [opcode |-> opcode, block |-> unpack_H(SubSeq(packet, 3, 4))]
      ELSE IF opcode = OP_ERROR
      THEN [opcode |-> opcode, code |-> unpack_H(SubSeq(packet, 3, 4)),
            message |-> bytes_decode(SubSeq(packet, 5, Len(packet) - 1))]
      ELSE NoMsg

\* the opcode and field values that were encoded
Encoded(m) ==
  CASE m.opcode \in {OP_RRQ, OP_WRQ} ->
         IF m.opcode = OP_RRQ /\ m.block_size # DEFAULT_BLOCK_SIZE
         THEN [opcode |-> m.opcode, filename |-> m.filename, mode |-> m.mode,
               options |-> {<<OPT_BLKSIZE_CODE, pack_H(m.block_size)>>}]
         ELSE [opcode |-> m.opcode, filename |-> m.filename, mode |-> m.mode]
    [] m.opcode = OP_DATA ->
         [opcode |-> m.opcode, block |-> m.block, data |-> m.data]
    [] m.opcode = OP_ACK -> [opcode |-> m.opcode, block |-> m.block]
    [] m.opcode = OP_ERROR ->
         [opcode |-> m.opcode, code |-> m.code, message |-> m.message]

\* inputs of the codec: "a.txt", "a", two names with a non-ASCII letter
a_txt == <<97, 46, 116, 120, 116>>
octet == <<111, 99, 116, 101, 116>>
Filenames == {a_txt, <<97>>, <<233>>, <<233, 233>>}
Modes == {octet}
CodecBlockSizes == {DEFAULT_BLOCK_SIZE, 2 * DEFAULT_BLOCK_SIZE}
CodecNumbers == {0, 1, DEFAULT_BLOCK_SIZE \div 2, MaxBlock}
Payloads == {<<>>, <<0>>, <<0, 255>>, a_txt}
Messages ==
  [opcode : {OP_RRQ}, filename : Filenames, mode : Modes,
   block_size : CodecBlockSizes]
  \cup [opcode : {OP_WRQ}, filename : Filenames, mode : Modes]
  \cup [opcode : {OP_DATA}, block : CodecNumbers, data : Payloads,
        block_size : CodecBlockSizes]
  \cup [opcode : {OP_ACK}, block : CodecNumbers]
  \cup [opcode : {OP_ERROR}, code : CodecNumbers, message : {<<>>, a_txt}]

transferVars == <<block_size, block_number, server_addr, fileExists, file,
                  src, srcExists, fpos, lastRcvd, lastSent, nSent, steps,
                  bulk, first_addr, wrote, dataLog, errorSeen, requested>>

\* a create_packet_* call on message m
CodecEncode(m) ==
  /\ pc = "idle"
  /\ op' = "codec"
  /\ msg' = m
  /\ decoded' = NoMsg
  /\ IF encode_raises(m)
     THEN wire' = <<>> /\ pc' = "end" /\ outcome' = "value_error"
     ELSE wire' = encode(m) /\ pc' = "encoded" /\ outcome' = "none"
  /\ UNCHANGED transferVars

\* parse_packet on the bytes the encoder produced
CodecDecode ==
  /\ op = "codec" /\ pc = "encoded"
  /\ IF parse_packet_raises(wire)
     THEN decoded' = NoMsg /\ outcome' = "parse_error"
     ELSE decoded' = parse_packet(wire) /\ outcome' = "done"
  /\ pc' = "end"
  /\ UNCHANGED <<op, msg, wire>>
  /\ UNCHANGED transferVars

(* ---- what the caller is left with ---------------------------------------- *)
\* outcomes that leave the function by an exception nothing catches
\* (ConnectionResetError is caught by tftp_client_get only)
Raised(o, how) ==
  \/ how \in {"value_error", "parse_error", "struct_error"}
  \/ o = "put" /\ how = "reset"

\* what the call hands its caller: every return statement is a bare return
\* and the end of the function is reached after break, so the value is None
return_value(o, how) == IF Raised(o, how) THEN how ELSE "None"

\* sock is created at lines 250 and 378; no statement of either function
\* closes it
sock_open == op \in {"get", "put"}

(* ---- the specification -------------------------------------------------- *)
RecvErrors == {"timeout", "reset"}

Next ==
  \/ \E bs \in GetBlockSizes : GetStart(bs)
  \/ \E how \in RecvErrors : GetFirstFails(how)
  \/ \E a \in Senders :
       \E p \in DataPackets(1, block_size) \cup AckPackets(1)
                  \cup ErrorPackets \cup RequestPackets \cup OtherPackets :
         GetFirstReply(p, a)
  \/ \E how \in RecvErrors : GetRecvFails(how)
  \/ \E a \in Senders : \E p \in DataPackets(block_number, block_size) :
       \E diskFull \in BOOLEAN : \E fails \in {0, 1, DEFAULT_RETRY} :
         GetData(p, a, diskFull, fails)
  \/ \E a \in Senders : \E p \in ErrorPackets : GetError(p, a)
  \/ \E a \in Senders : \E p \in AckPackets(block_number) \cup RequestPackets :
       GetIgnored(p, a)
  \/ \E a \in Senders : \E p \in OtherPackets : GetUnparsed(p, a)
  \/ GetBulk
  \/ \E in \in PutInputs : \E exists \in BOOLEAN :
       PutStart(in[1], in[2], exists)
  \/ \E how \in RecvErrors : PutRecvFails(how)
  \/ \E a \in Senders : \E p \in AckPackets(block_number) : PutAck(p, a)
  \/ \E a \in Senders : \E p \in ErrorPackets : PutError(p, a)
  \/ \E a \in Senders :
       \E p \in DataPackets(block_number, block_size) \cup RequestPackets :
         PutIgnored(p, a)
  \/ \E a \in Senders : \E p \in OtherPackets : PutUnparsed(p, a)
  \/ \E how \in RecvErrors : PutNoFileFails(how)
  \/ \E a \in Senders :
       \E p \in AckPackets(1) \cup ErrorPackets \cup OtherPackets
                  \cup DataPackets(1, block_size) \cup RequestPackets :
         PutNoFileReply(p, a)
  \/ \E a \in Senders : PutBulk(a)
  \/ \E m \in Messages : CodecEncode(m)
  \/ CodecDecode

Spec == Init /\ [][Next]_vars

(* ---- properties --------------------------------------------------------- *)
Last(s) == s[Len(s)]

\* the step is a recvfrom that returned a datagram of the given opcode
Received(opcode) ==
  /\ steps' = steps + 1
  /\ lastRcvd'.res = "packet"
  /\ lastRcvd'.pkt.opcode = opcode

\* some byte has been written to the output file
BytesWritten == bulk > 0 \/ \E k \in 1..Len(wrote) : wrote[k].data.len > 0

C1_State ==
  op = "get" =>
    /\ \A k \in 1..Len(wrote) : wrote[k].blk = bulk + k
    /\ fileExists => file = [k \in 1..Len(wrote) |-> wrote[k].data]
    /\ pc = "getLoop" => fileExists /\ bulk + Len(file) = block_number - 1

C1_Step ==
  op = "get" =>
    /\ wrote' # wrote =>
         /\ Received(OP_DATA)
         /\ lastRcvd'.pkt.blk = block_number
         /\ wrote' = Append(wrote, [blk |-> block_number,
                                    data |-> lastRcvd'.pkt.data])
    /\ (pc = "getLoop" /\ Received(OP_DATA)
          /\ lastRcvd'.pkt.blk > block_number) =>
         UNCHANGED <<file, fileExists, wrote, block_number, nSent, lastSent,
                     pc, outcome>>

\* C1: in tftp_client_get a Data packet is written only when its block
\* number equals block_number, a Data packet with a higher number causes no
\* write, no Ack and no change of block_number, and the output file is
\* always the payloads of blocks 1 .. block_number - 1, in order, once each.
C1_InOrderWrites == [](C1_State) /\ [][C1_Step]_vars

\* a Data packet numbered above block_number arrived after a block was written
C1_Witness ==
  /\ op = "get" /\ pc = "getLoop"
  /\ Len(file) >= 1
  /\ lastRcvd.res = "packet" /\ lastRcvd.pkt.opcode = OP_DATA
  /\ lastRcvd.pkt.blk > block_number

\* C2: in the loop of tftp_client_get a Data packet numbered below
\* block_number is answered by one Ack carrying the received number; nothing
\* is written and block_number stays.
C2_DuplicateAcked ==
  [][(op = "get" /\ pc = "getLoop" /\ Received(OP_DATA)
        /\ lastRcvd'.pkt.blk < block_number) =>
       /\ nSent' = nSent + 1
       /\ lastSent'.pkt = Packet(OP_ACK, lastRcvd'.pkt.blk, NoData)
       /\ UNCHANGED <<file, fileExists, wrote, block_number>>]_vars

\* an old Data packet, not the one just acknowledged, was answered
C2_Witness ==
  /\ op = "get" /\ pc = "getLoop"
  /\ Len(file) >= 1
  /\ lastRcvd.res = "packet" /\ lastRcvd.pkt.opcode = OP_DATA
  /\ lastRcvd.pkt.blk < block_number - 1
  /\ lastSent.pkt = Packet(OP_ACK, lastRcvd.pkt.blk, NoData)

\* C3: once the first reply has been received, a packet from any other
\* sender is discarded: it changes no session state and nothing is sent in
\* answer to it, so nothing is ever sent to another address than the first
\* reply's.
C3_ForeignDiscarded ==
  [][(first_addr # NoAddr /\ steps' = steps + 1 /\ lastRcvd'.res = "packet"
        /\ lastRcvd'.from # first_addr) =>
       UNCHANGED <<pc, outcome, block_number, server_addr, fileExists, file,
                   fpos, lastSent, nSent>>]_vars

\* C4: when a blocking receive times out the client sends its last outgoing
\* packet again, unchanged, and goes on waiting (the session gives up only
\* after DEFAULT_RETRY such resends).
C4_ResendOnTimeout ==
  [][(steps' = steps + 1 /\ lastRcvd'.res = "timeout") =>
       /\ nSent' = nSent + 1
       /\ lastSent' = lastSent
       /\ outcome' = "none"]_vars

\* C5: the transfer continues across the block-number wrap: in the download
\* the block expected after 65535 is 0, and in the upload the Ack of
\* Data(65535) is answered by Data(0).
C5_WrapContinues ==
  /\ (op = "get" /\ pc = "getLoop" /\ wrote # <<>>
        /\ Last(wrote).blk = MaxBlock /\ bulk + Len(file) = MaxBlock) =>
       block_number = 0
  /\ (op = "put" /\ dataLog # <<>> /\ Last(dataLog).blk = MaxBlock
        /\ lastRcvd.res = "packet"
        /\ lastRcvd.pkt = Packet(OP_ACK, MaxBlock, NoData)) =>
       (lastSent.pkt.opcode = OP_DATA /\ lastSent.pkt.blk = 0)

C7_UploadEnded ==
  /\ op = "put" /\ srcExists /\ pc = "end"
  /\ \/ outcome = "done"
     \/ /\ lastRcvd.res = "packet" /\ lastRcvd.pkt.opcode = OP_ACK
        /\ lastSent.pkt.opcode = OP_DATA
        /\ lastRcvd.pkt.blk = lastSent.pkt.blk

\* C7: an upload of a file of length L with block size B in which every Data
\* packet is acknowledged sends floor(L/B) + 1 Data packets, the last of
\* L mod B bytes, whose payloads are the file's bytes in order.
C7_UploadSendsWholeFile ==
  C7_UploadEnded =>
    /\ bulk + Len(dataLog) = (src \div block_size) + 1
    /\ fpos = src
    /\ dataLog # <<>> => Last(dataLog).data.len = src % block_size
    /\ \A k \in 1..Len(dataLog) :
         dataLog[k].data.tag = (bulk + k - 1) * block_size

C8_State ==
  op = "put" =>
    /\ \A k \in 1..Len(dataLog) : dataLog[k].blk = bulk + k
    /\ pc = "putLoop" => block_number = bulk + Len(dataLog) + 1

C8_Step ==
  op = "put" =>
    /\ (nSent' # nSent /\ lastSent'.pkt.opcode = OP_DATA) =>
         /\ lastRcvd'.res = "packet" /\ lastRcvd'.pkt.opcode = OP_ACK
         /\ lastRcvd'.pkt.blk + 1 = lastSent'.pkt.blk
         /\ ~errorSeen'
         /\ bulk' = bulk =>
              /\ nSent' = nSent + 1
              /\ dataLog' = Append(dataLog, lastSent'.pkt)
              /\ lastRcvd'.pkt.blk = bulk + Len(dataLog)
    /\ dataLog' # dataLog => nSent' # nSent

\* C8: tftp_client_put sends Data(n+1) only in answer to Ack(n), where
\* Data(n) is the last Data packet sent (Data(1) in answer to Ack(0)); a
\* repeated or stale Ack sends nothing, and nothing is sent once an Error
\* packet has been received.
C8_OneInFlight == [](C8_State) /\ [][C8_Step]_vars

\* a stale Ack arrived after two Data packets and nothing was sent for it
C8_Witness ==
  /\ op = "put" /\ pc = "putLoop"
  /\ Len(dataLog) >= 2
  /\ lastRcvd.res = "packet" /\ lastRcvd.pkt.opcode = OP_ACK
  /\ lastRcvd.pkt.blk + 2 < block_number
  /\ lastSent.pkt = Last(dataLog)

\* C9: when tftp_client_get ends because of an Error packet, a receive
\* timeout or the free-space test after it has written a byte, the output
\* file does not exist any more.
C9_AbortRemovesFile ==
  (op = "get" /\ outcome \in {"remote_error", "timeout", "disk_full"}
     /\ BytesWritten) => ~fileExists

\* a download timed out after a block with data was written and acknowledged
C9_Witness ==
  /\ op = "get" /\ outcome = "timeout"
  /\ BytesWritten
  /\ block_number >= 2
  /\ ~fileExists

\* C10: the receipt of an Error packet at any point of a session, the first
\* reply included, ends the call: nothing is received, sent or written
\* after it.
C10_ErrorTerminates == errorSeen => pc = "end"

\* C11: a datagram that cannot be decoded counts as no packet: in either
\* loop it changes no session state and writes nothing, the call goes on
\* (it ends only by the retry path), and no partial output file is left
\* behind by an uncontrolled failure.
C11_UndecodableIgnored ==
  [][(pc \in {"getLoop", "putLoop"} /\ Received(OP_OTHER)) =>
       /\ UNCHANGED <<pc, outcome, block_number, fileExists, file, wrote,
                      fpos, dataLog>>
       /\ ~(pc' = "end" /\ fileExists')]_vars

\* C12: when the free-space test fails after an accepted Data block has been
\* written, tftp_client_get sends one Error packet with code 3 to the
\* sender, sends no Ack for the block, removes the output file and ends
\* without another receive.
C12_DiskFullAborts ==
  [][(op = "get" /\ outcome = "none" /\ outcome' = "disk_full") =>
       /\ Received(OP_DATA)
       /\ lastRcvd'.pkt.blk = block_number
       /\ wrote' = Append(wrote, [blk |-> block_number,
                                  data |-> lastRcvd'.pkt.data])
       /\ nSent' = nSent + 1
       /\ lastSent' = [pkt |-> Packet(OP_ERROR, ERR_DISK_FULL, NoData),
                       to |-> lastRcvd'.from]
       /\ block_number' = block_number
       /\ ~fileExists'
       /\ pc' = "end"]_vars

\* the free-space test failed on the second block of a download
C12_Witness ==
  /\ op = "get" /\ outcome = "disk_full" /\ pc = "end"
  /\ Len(wrote) >= 2
  /\ lastSent.pkt = Packet(OP_ERROR, ERR_DISK_FULL, NoData)
  /\ ~fileExists

C14_RequestCarriesBlksize ==
  (op = "get" /\ steps = 0) =>
    /\ pc = "getFirst"
    /\ nSent = 1
    /\ lastSent.to = ServerAddr
    /\ lastSent.pkt.opcode = OP_RRQ
    /\ lastSent.pkt.opts = (requested # DEFAULT_BLOCK_SIZE)

\* C15: the value a call returns tells a successful transfer from a failed
\* one (and the kinds of failure from each other).
C15_ResultTellsOutcome ==
  (op \in {"get", "put"} /\ pc = "end" /\ outcome # "done") =>
    return_value(op, outcome) # return_value(op, "done")

\* C16: a call that has reached a terminal outcome (success, remote error,
\* timeout, disk full, local file missing) has closed its socket.
C16_SocketClosedAtEnd ==
  (pc = "end" /\ outcome \in {"done", "remote_error", "timeout", "disk_full",
                              "no_file"}) => ~sock_open

\* C17 (as stated): for every message with valid fields, parse_packet of
\* the bytes of the matching create_packet_* call gives back the opcode and
\* the field values that were encoded.
C17_RoundTrip ==
  (op = "codec" /\ pc = "end") => (outcome = "done" /\ decoded = Encoded(msg))

RrqATxt ==
  [opcode |-> OP_RRQ, filename |-> a_txt, mode |-> octet,
   block_size |-> DEFAULT_BLOCK_SIZE]

\* C18 (as stated): the read request for "a.txt", "octet" with the default
\* block size is encoded as 01 00 61 2E 74 78 74 00 6F 63 74 65 74 00.
C18_BytesAsStated ==
  (op = "codec" /\ msg = RrqATxt /\ pc = "encoded") =>
    wire = <<1, 0, 97, 46, 116, 120, 116, 0, 111, 99, 116, 101, 116, 0>>

\* C18 (amended): the read request for "a.txt", "octet" with the default
\* block size is encoded as exactly the 14 bytes
\* 00 01 61 2E 74 78 74 00 6F 63 74 65 74 00: the opcode is big-endian.
C18_RrqBytes ==
  (op = "codec" /\ msg = RrqATxt /\ pc \in {"encoded", "end"}) =>
    wire = <<0, 1, 97, 46, 116, 120, 116, 0, 111, 99, 116, 101, 116, 0>>

C18_Witness ==
  /\ op = "codec" /\ msg = RrqATxt /\ pc = "encoded"
  /\ Len(wire) = 14 /\ wire[2] = OP_RRQ

\* C19 (as stated): when the first reply to the read request is Data(1), its
\* payload is written, Ack(1) is sent and the expected block becomes 2.
C19_FirstDataWritten ==
  [][(op = "get" /\ pc = "getFirst" /\ Received(OP_DATA)
      /\ lastRcvd'.pkt.blk = 1) =>
       /\ wrote' = <<[blk |-> 1, data |-> lastRcvd'.pkt.data]>>
       /\ lastSent' = [pkt |-> create_packet_ack(1), to |-> lastRcvd'.from]
       /\ block_number' = 2]_vars

\* C20: an upload whose local source file does not exist still sends the
\* write request, waits for one reply, answers a reply of any kind with
\* Error(1) to that reply's sender and ends, ends without the Error when the
\* wait fails, and never sends a Data packet.
C20_MissingSource ==
  (op = "put" /\ ~srcExists) =>
    /\ dataLog = <<>> /\ bulk = 0 /\ lastSent.pkt.opcode # OP_DATA
    /\ pc \in {"putNoFile", "end"}
    /\ pc = "putNoFile" =>
         /\ lastSent = [pkt |-> create_packet_wrq, to |-> ServerAddr]
         /\ nSent = 1 /\ steps = 0 /\ outcome = "none"
    /\ (pc = "end" /\ lastRcvd.res = "packet") =>
         /\ lastSent = [pkt |-> Packet(OP_ERROR, ERR_FILE_NOT_FOUND, NoData),
                        to |-> lastRcvd.from]
         /\ nSent = 2 /\ steps = 1 /\ outcome = "no_file"
    /\ (pc = "end" /\ lastRcvd.res # "packet") =>
         /\ lastSent = [pkt |-> create_packet_wrq, to |-> ServerAddr]
         /\ nSent = 1 /\ steps = 1 /\ outcome = lastRcvd.res

C20_Witness ==
  /\ op = "put" /\ ~srcExists /\ pc = "end"
  /\ lastRcvd.res = "packet" /\ lastRcvd.pkt.opcode = OP_DATA
  /\ lastRcvd.from = "other"
  /\ lastSent.pkt.opcode = OP_ERROR /\ lastSent.to = "other"

\* the step is a sendto of an Ack by tftp_client_get
AckSent ==
  /\ op = "get" /\ nSent' > nSent /\ lastSent'.pkt.opcode = OP_ACK

\* number of blocks whose payload has been written to the output file
BlocksWritten == Len(wrote) + bulk

\* C21 (as stated): every Ack(n) sent by tftp_client_get is for a block
\* whose payload is already in the output file (1 <= n <= blocks written),
\* and the download ends successfully only in a step that sends the Ack of
\* the final short block.
C21_AckedBlocksWritten ==
  [][/\ AckSent =>
          /\ 1 <= lastSent'.pkt.blk
          /\ lastSent'.pkt.blk <= BlocksWritten'
     /\ (op = "get" /\ outcome = "none" /\ outcome' = "done") =>
          /\ AckSent
          /\ lastSent'.pkt.blk = block_number
          /\ Last(wrote').blk = block_number
          /\ Last(wrote').data.len < block_size]_vars

====
